---- MODULE Spec2Model ----
(***************************************************************************)
(* Offline-first task manager: the local task store (TaskService), the     *)
(* sync queue, and the sync engine (SyncService + POST /sync).             *)
(*                                                                         *)
(* The SQLite tables are modelled as                                       *)
(*   tasks : a function from task id to its row,                           *)
(*   queue : the rows of sync_queue in insertion order, which is the order *)
(*           `SELECT * FROM sync_queue ORDER BY created_at ASC` returns.   *)
(* JavaScript values that have no TLA+ counterpart are tokens: UNDEF is    *)
(* undefined, NULL is null / SQL NULL, NUM is a value that is not a string.*)
(* A handler is one action; a sync run is a sequence of actions, one per   *)
(* await on the remote, so that local mutations can interleave with it.    *)
(***************************************************************************)
EXTENDS Integers, Sequences, FiniteSets, TLC

(* ------------------------------ bounds -------------------------------- *)
\* Number of task ids (uuidv4 values) the model hands out.
MaxTasks == 2
\* Number of task store mutations (calls that reach their first write) in one
\* behaviour of Spec; FaultSpec allows one more.
MaxOps == 2
\* Largest reading of the clock.
MaxTime == 1
\* A sync run starts only while every queued entry has a smaller retry_count.
MaxRetryCount == 4
\* Largest SYNC_BATCH_SIZE the environment is given (the code's default is 50).
MaxBatchSize == 2
\* Number of db.run calls that reject in one behaviour.
MaxFaults == 1
\* Largest number of rows of a queue that a sync run is started on directly.
MaxDrain == 5

(* ------------------------- program constants -------------------------- *)
\* handleSyncError: `if (newCount >= 3)`.
MaxRetries == 3

(* --------------------------- value tokens ----------------------------- *)
UNDEF == "undefined"
NULL == "null"
NUM == "#number"
NoTime == 0 - 1

TaskIds == 1..MaxTasks
Times == 0..MaxTime

\* `!v` for the values used as a title.
Falsy(v) == v \in {UNDEF, NULL, ""}
\* `typeof v === 'string'`.
IsString(v) == v \notin {UNDEF, NULL, NUM}
\* `a ?? b`.
Coalesce(a, b) == IF a \in {UNDEF, NULL} THEN b ELSE a
\* `typeof v === 'boolean'` on the tokens "true" / "false".
IsBoolean(v) == v \in {"true", "false"}
\* `v ? 1 : 0` on a boolean token; undefined is falsy.
ToBit(v) == IF v = "true" THEN 1 ELSE 0
\* `bit === 1` rendered back as a boolean token (JSON.stringify of a boolean).
FromBit(b) == IF b = 1 THEN "true" ELSE "false"

VARIABLES
    tasks,      \* table tasks: [id -> row], rows are never physically removed
    queue,      \* table sync_queue, in created_at order
    now,        \* last reading of the wall clock
    pc,         \* position of the sync run: "idle", "loop", "results"
    items,      \* sync(): the queue as read at the start of the run (<<>> outside a run)
    pos,        \* sync(): loop index i (0-based offset into items)
    nres,       \* sync(): results of the current response consumed so far
    synced,     \* sync(): counter
    failed,     \* sync(): counter
    errors,     \* sync(): SyncResult['errors']
    batchSize,  \* process.env.SYNC_BATCH_SIZE, as parseInt reads it
    faults,     \* number of db.run calls that have rejected so far
    ops,        \* number of mutations that have reached their first write so far
    resolving,  \* a direct call of resolveConflict: its arguments and what it returned
    last        \* the call or step that led to this state, and what it returned

vars == <<tasks, queue, now, pc, items, pos, nres, synced, failed, errors,
          batchSize, faults, ops, resolving, last>>
runVars == <<pc, items, pos, nres, synced, failed, errors, batchSize, resolving>>

(* ------------------------------ helpers ------------------------------- *)
\* A row id of the tasks table exists.
HasRow(id) == id \in DOMAIN tasks

\* The queue rows whose task_id is id, in order.
EntriesOf(q, id) == SelectSeq(q, LAMBDA e : e.task_id = id)

\* Number of queue rows whose task_id is id.
CountOf(q, id) == Len(EntriesOf(q, id))

\* `new Date()`: the clock never runs backwards.
ClockReadings == {t \in Times : t = now \/ t = now + 1}

\* A SyncResult; NoSummary stands for "the call returned no SyncResult".
Summary(success, syncedItems, failedItems, errs) ==
    [success |-> success, synced_items |-> syncedItems, failed_items |-> failedItems,
     errors |-> errs]
NoSummary == Summary(FALSE, -1, -1, <<>>)

\* What `last` records of a call: the operation, its target, what it returned,
\* and of the state it started in the target's sync_status (prior) and the
\* number of queue rows of the target (nq).
CallRet(op, id, result, summary) ==
    [op |-> op, id |-> id, result |-> result,
     prior |-> IF HasRow(id) THEN tasks[id].sync_status ELSE "none",
     nq |-> CountOf(queue, id),
     summary |-> summary]
Call(op, id, result) == CallRet(op, id, result, NoSummary)

\* uuidv4(): an id no row has.
NewTaskId == Cardinality(DOMAIN tasks) + 1

\* uuidv4() for a queue row: an id that no queue row has and that the sync run
\* in progress, if any, has not read.  The model takes the smallest such id.
NewQueueId ==
    CHOOSE n \in 1..(Len(queue) + Len(items) + 1) :
        /\ \A i \in DOMAIN queue : queue[i].id # n
        /\ \A i \in DOMAIN items : items[i].id # n
        /\ \A m \in 1..(n - 1) :
              \/ \E i \in DOMAIN queue : queue[i].id = m
              \/ \E i \in DOMAIN items : items[i].id = m

\* The row `INSERT INTO sync_queue (id, task_id, operation, data)` creates;
\* retry_count and error_message take their column defaults.
QueueRow(qid, taskId, operation, data) ==
    [id |-> qid, task_id |-> taskId, operation |-> operation, data |-> data,
     retry_count |-> 0, error_message |-> NULL]

\* Mutant of InsertQueue: the new row replaces the task's earlier rows.
InsertQueueDedup(q, qid, taskId, operation, data) ==
    Append(SelectSeq(q, LAMBDA e : e.task_id # taskId),
           QueueRow(qid, taskId, operation, data))

\* `INSERT INTO sync_queue ...`: appends one row.
InsertQueue(q, qid, taskId, operation, data) ==
    Append(q, QueueRow(qid, taskId, operation, data))

\* The JSON snapshot stored in sync_queue.data.
QueueData(id, title, description, completed, updatedAt) ==
    [id |-> id, title |-> title, description |-> description,
     completed |-> completed, updated_at |-> updatedAt]

(* ----------------------------- TaskService ---------------------------- *)
NoTask == [id |-> 0, title |-> NULL, description |-> UNDEF, completed |-> "false",
           updated_at |-> NoTime, is_deleted |-> "false", sync_status |-> NULL,
           server_id |-> UNDEF, last_synced_at |-> NoTime]

mapRowToTask(id, row) ==
    [id |-> id, title |-> row.title,
     description |-> Coalesce(row.description, UNDEF),
     completed |-> FromBit(row.completed),
     updated_at |-> row.updated_at,
     is_deleted |-> FromBit(row.is_deleted),
     sync_status |-> row.sync_status,
     server_id |-> Coalesce(row.server_id, UNDEF),
     last_synced_at |-> row.last_synced_at]

\* getTask: null (NoTask) for an absent or a soft-deleted row.
getTask(id) ==
    IF ~HasRow(id) \/ tasks[id].is_deleted = 1 THEN NoTask
    ELSE mapRowToTask(id, tasks[id])

\* The inputs the model feeds to createTask and updateTask.
CreateInputs ==
    [title : {UNDEF, "", NUM, "a"}, description : {"d"}, completed : {UNDEF}]
UpdateInputs ==
    [title : {"b"}, description : {UNDEF}, completed : {"true"}]
\* Which of the two db.run calls of a mutation rejects, if any.
Faults == {"none", "tasks", "queue"}

\* The mutation reaches its writes, and a db.run call of it rejects (within
\* the model's budget) or none does.
Rejects(fault) ==
    /\ ops' = ops + 1
    /\ IF fault = "none" THEN faults' = faults
       ELSE faults < MaxFaults /\ faults' = faults + 1

\* Mutant of TitleRejected: the typeof test is missing.
TitleRejectedFalsyOnly(taskData) == Falsy(taskData.title)

\* createTask's guard: `!taskData.title || typeof taskData.title !== 'string'`.
TitleRejected(taskData) == Falsy(taskData.title) \/ ~IsString(taskData.title)

\* The row createTask inserts.
NewRow(taskData, t) ==
    [title |-> taskData.title,
     description |-> Coalesce(taskData.description, NULL),
     completed |-> ToBit(Coalesce(taskData.completed, "false")),
     updated_at |-> t, is_deleted |-> 0, sync_status |-> "pending",
     server_id |-> NULL, last_synced_at |-> NoTime]

createTask(taskData, fault) ==
    IF TitleRejected(taskData)
    THEN /\ last' = Call("create", 0, "Title is required")
         /\ UNCHANGED <<tasks, queue, now, faults, ops, runVars>>
    ELSE /\ Cardinality(DOMAIN tasks) < MaxTasks
         /\ Rejects(fault)
         /\ \E t \in ClockReadings :
              LET id == NewTaskId
                  completed == Coalesce(taskData.completed, "false")
                  data == QueueData(id, taskData.title, taskData.description, completed, t)
              IN /\ now' = t
                 /\ tasks' = IF fault = "tasks" THEN tasks
                             ELSE tasks @@ (id :> NewRow(taskData, t))
                 /\ queue' = IF fault = "none"
                             THEN InsertQueue(queue, NewQueueId, id, "create", data)
                             ELSE queue
                 /\ last' = Call("create", id, IF fault = "none" THEN "task" ELSE "throws")
         /\ UNCHANGED runVars

\* The row updateTask writes.
UpdatedRow(existing, updates, t) ==
    [existing EXCEPT
        !.title = Coalesce(updates.title, existing.title),
        !.description = Coalesce(updates.description, existing.description),
        !.completed = IF IsBoolean(updates.completed) THEN ToBit(updates.completed)
                      ELSE existing.completed,
        !.updated_at = t,
        !.sync_status = "pending"]

updateTask(id, updates, fault) ==
    IF ~HasRow(id)
    THEN /\ last' = Call("update", id, "null")
         /\ UNCHANGED <<tasks, queue, now, faults, ops, runVars>>
    ELSE /\ Rejects(fault)
         /\ \E t \in ClockReadings :
              LET row == UpdatedRow(tasks[id], updates, t)
                  data == QueueData(id, row.title, Coalesce(row.description, UNDEF),
                                    FromBit(row.completed), t)
              IN /\ now' = t
                 /\ tasks' = IF fault = "tasks" THEN tasks
                             ELSE [tasks EXCEPT ![id] = row]
                 /\ queue' = IF fault = "none"
                             THEN InsertQueue(queue, NewQueueId, id, "update", data)
                             ELSE queue
                 /\ last' = Call("update", id,
                                 IF fault # "none" THEN "throws"
                                 ELSE IF row.is_deleted = 1 THEN "null" ELSE "task")
         /\ UNCHANGED runVars

\* The row deleteTask writes.
DeletedRow(existing, t) ==
    [existing EXCEPT !.is_deleted = 1, !.updated_at = t, !.sync_status = "pending"]

deleteTask(id, fault) ==
    IF ~HasRow(id)
    THEN /\ last' = Call("delete", id, "false")
         /\ UNCHANGED <<tasks, queue, now, faults, ops, runVars>>
    ELSE /\ Rejects(fault)
         /\ \E t \in ClockReadings :
              LET data == QueueData(id, UNDEF, UNDEF, UNDEF, t)
              IN /\ now' = t
                 /\ tasks' = IF fault = "tasks" THEN tasks
                             ELSE [tasks EXCEPT ![id] = DeletedRow(tasks[id], t)]
                 /\ queue' = IF fault = "none"
                             THEN InsertQueue(queue, NewQueueId, id, "delete", data)
                             ELSE queue
                 /\ last' = Call("delete", id, IF fault = "none" THEN "true" ELSE "throws")
         /\ UNCHANGED runVars

(* ----------------------------- SyncService ---------------------------- *)
\* The two tables as one value, so that the helpers below can be composed.
DB(t, q) == [t |-> t, q |-> q]

\* The remote's copy of a task, as carried by resolved_data.  isDate tells
\* whether updated_at reached the client as a Date object (true) or, as JSON
\* delivers it, as text (false).
NoData == [id |-> 0, title |-> NULL, description |-> UNDEF, completed |-> "false",
           updated_at |-> NoTime, isDate |-> FALSE]
ResolvedData ==
    [id : TaskIds, title : {"r"}, description : {UNDEF}, completed : {"true"},
     updated_at : Times, isDate : BOOLEAN]

\* One element of BatchSyncResponse.processed_items.  The remote returns at
\* most one element per submitted item, for whichever client_id it likes.
Results ==
    [client_id : TaskIds, status : {"success"}, server_id : {UNDEF, "s1", "s2"},
     resolved_data : {NoData}, error : {UNDEF}]
    \cup
    [client_id : TaskIds, status : {"conflict"}, server_id : {UNDEF, "s1"},
     resolved_data : {NoData} \cup ResolvedData, error : {UNDEF}]
    \cup
    [client_id : TaskIds, status : {"error"}, server_id : {UNDEF},
     resolved_data : {NoData}, error : {UNDEF}]

\* What a rejected axios.post reports, and what a TypeError inside the loop reports.
NetworkError == "Network Error"
TypeError == "TypeError"

\* Mutant of resolveConflict: the comparison is strict, the remote wins ties.
resolveConflictStrict(localTask, serverTask) ==
    IF localTask.updated_at > serverTask.updated_at THEN localTask ELSE serverTask

\* resolveConflict: the winner, as a whole record.  Local wins ties.
resolveConflict(localTask, serverTask) ==
    IF localTask.updated_at >= serverTask.updated_at THEN localTask ELSE serverTask

\* Mutant of updateSyncStatus: 'synced' deletes only the task's oldest queue row.
updateSyncStatusOldestOnly(db, taskId, status, serverId) ==
    IF status = "synced"
    THEN DB(IF taskId \in DOMAIN db.t
            THEN [db.t EXCEPT ![taskId] =
                     [@ EXCEPT !.sync_status = "synced",
                               !.server_id = Coalesce(Coalesce(serverId, NULL), @),
                               !.last_synced_at = now]]
            ELSE db.t,
            IF \E i \in DOMAIN db.q : db.q[i].task_id = taskId
            THEN LET k == CHOOSE i \in DOMAIN db.q :
                             /\ db.q[i].task_id = taskId
                             /\ \A j \in 1..(i - 1) : db.q[j].task_id # taskId
                 IN SubSeq(db.q, 1, k - 1) \o SubSeq(db.q, k + 1, Len(db.q))
            ELSE db.q)
    ELSE DB(IF taskId \in DOMAIN db.t
            THEN [db.t EXCEPT ![taskId] = [@ EXCEPT !.sync_status = "error"]]
            ELSE db.t,
            db.q)

\* updateSyncStatus(taskId, status, serverData).
updateSyncStatus(db, taskId, status, serverId) ==
    IF status = "synced"
    THEN DB(IF taskId \in DOMAIN db.t
            THEN [db.t EXCEPT ![taskId] =
                     [@ EXCEPT !.sync_status = "synced",
                               !.server_id = Coalesce(Coalesce(serverId, NULL), @),
                               !.last_synced_at = now]]
            ELSE db.t,
            SelectSeq(db.q, LAMBDA e : e.task_id # taskId))
    ELSE DB(IF taskId \in DOMAIN db.t
            THEN [db.t EXCEPT ![taskId] = [@ EXCEPT !.sync_status = "error"]]
            ELSE db.t,
            db.q)

\* `UPDATE sync_queue SET retry_count = ?, error_message = ? WHERE id = ?`.
SetRetry(q, qid, count, message) ==
    [i \in DOMAIN q |->
        IF q[i].id = qid
        THEN [q[i] EXCEPT !.retry_count = count, !.error_message = message]
        ELSE q[i]]

\* handleSyncError(item, error): item is the row as read at the start of the run.
handleSyncError(db, item, message) ==
    LET newCount == item.retry_count + 1
        db1 == DB(db.t, SetRetry(db.q, item.id, newCount, message))
    IN IF newCount >= MaxRetries
       THEN updateSyncStatus(db1, item.task_id, "error", UNDEF)
       ELSE db1

\* The catch block of sync(): handleSyncError for every item of the batch.
RECURSIVE FailAll(_, _, _)
FailAll(db, batch, message) ==
    IF batch = <<>> THEN db
    ELSE FailAll(handleSyncError(db, Head(batch), message), Tail(batch), message)

\* `err?.message || 'Batch failed'`.
BatchErrorText(message) == IF message = "" THEN "Batch failed" ELSE message

\* The records the catch block pushes onto errors.
BatchErrors(batch, message) ==
    [i \in DOMAIN batch |->
        [task_id |-> batch[i].task_id, operation |-> batch[i].operation,
         error |-> BatchErrorText(message)]]

\* Mutant of Slice: the end index is taken as inclusive.
SliceInclusive(s, i, size) ==
    SubSeq(s, i + 1, IF i + size + 1 < Len(s) THEN i + size + 1 ELSE Len(s))

\* `items.slice(i, i + batchSize)`.
Slice(s, i, size) ==
    SubSeq(s, i + 1, IF i + size < Len(s) THEN i + size ELSE Len(s))

\* The batch the loop is at.
Batch == Slice(items, pos, batchSize)

\* `batch.find((b) => b.task_id === processed.client_id)`: index of the first
\* match, 0 when there is none.
FindOriginal(batch, clientId) ==
    IF \E i \in DOMAIN batch : batch[i].task_id = clientId
    THEN CHOOSE i \in DOMAIN batch :
            /\ batch[i].task_id = clientId
            /\ \A j \in DOMAIN batch : batch[j].task_id = clientId => i <= j
    ELSE 0

\* Mutant of syncStart: rows that have used up their retries are not read.
syncStartCapped ==
    /\ \A i \in DOMAIN queue : queue[i].retry_count < MaxRetryCount
    /\ items' = SelectSeq(queue, LAMBDA e : e.retry_count < MaxRetries)
    /\ pos' = 0
    /\ nres' = 0
    /\ synced' = 0
    /\ failed' = 0
    /\ errors' = <<>>
    /\ pc' = "loop"
    /\ last' = Call("sync", 0, "started")
    /\ UNCHANGED <<tasks, queue, now, batchSize>>

\* checkConnectivity() answers `online`; sync() starts by reading the queue.
syncStart ==
    /\ \A i \in DOMAIN queue : queue[i].retry_count < MaxRetryCount
    /\ items' = queue
    /\ pos' = 0
    /\ nres' = 0
    /\ synced' = 0
    /\ failed' = 0
    /\ errors' = <<>>
    /\ pc' = "loop"
    /\ last' = Call("sync", 0, "started")
    /\ UNCHANGED <<tasks, queue, now, batchSize>>

\* Mutant of SyncRoute: the answer of the connectivity probe is ignored.
SyncRouteNoProbe(online) ==
    /\ pc = "idle"
    /\ syncStart
    /\ UNCHANGED <<faults, ops, resolving>>

\* POST /sync.
SyncRoute(online) ==
    /\ pc = "idle"
    /\ IF ~online
       THEN /\ last' = Call("sync", 0, "Server unreachable")
            /\ UNCHANGED <<tasks, queue, now, runVars>>
       ELSE syncStart
    /\ UNCHANGED <<faults, ops, resolving>>

\* Mutant of CatchBatch: a failed batch is counted as one failure.
CatchBatchCountsOne(db, message) ==
    LET db1 == FailAll(db, Batch, message)
    IN /\ tasks' = db1.t
       /\ queue' = db1.q
       /\ failed' = failed + 1
       /\ errors' = errors \o BatchErrors(Batch, message)
       /\ pos' = pos + batchSize
       /\ nres' = 0
       /\ pc' = "loop"

\* The catch block: the batch is booked as failed and the loop moves on.
CatchBatch(db, message) ==
    LET db1 == FailAll(db, Batch, message)
    IN /\ tasks' = db1.t
       /\ queue' = db1.q
       /\ failed' = failed + Len(Batch)
       /\ errors' = errors \o BatchErrors(Batch, message)
       /\ pos' = pos + batchSize
       /\ nres' = 0
       /\ pc' = "loop"

\* processBatch: the batch is posted; the remote accepts it or the post rejects.
Transmit(accepted) ==
    /\ pc = "loop"
    /\ pos < Len(items)
    /\ IF accepted
       THEN /\ pc' = "results"
            /\ nres' = 0
            /\ last' = Call("transmit", 0, "accepted")
            /\ UNCHANGED <<tasks, queue, pos, synced, failed, errors>>
       ELSE /\ CatchBatch(DB(tasks, queue), NetworkError)
            /\ last' = Call("transmit", 0, "rejected")
            /\ UNCHANGED synced
    /\ UNCHANGED <<now, items, batchSize, faults, ops, resolving>>

\* The row the conflict branch writes for the winner.
ResolvedRow(row, resolved, serverId) ==
    [row EXCEPT
        !.title = resolved.title,
        !.description = Coalesce(resolved.description, NULL),
        !.completed = ToBit(resolved.completed),
        !.updated_at = resolved.updated_at,
        !.sync_status = "synced",
        !.server_id = Coalesce(serverId, NULL),
        !.last_synced_at = now]

\* Mutant of PersistResolved: the winner's queue rows are not deleted.
PersistResolvedKeepQueue(db, resolved, serverId) ==
    DB(IF resolved.id \in DOMAIN db.t
       THEN [db.t EXCEPT ![resolved.id] = ResolvedRow(@, resolved, serverId)]
       ELSE db.t,
       db.q)

\* The conflict branch after resolveConflict: persist the winner, clear its queue.
PersistResolved(db, resolved, serverId) ==
    DB(IF resolved.id \in DOMAIN db.t
       THEN [db.t EXCEPT ![resolved.id] = ResolvedRow(@, resolved, serverId)]
       ELSE db.t,
       SelectSeq(db.q, LAMBDA e : e.task_id # resolved.id))

\* `processed.error || 'Unknown error'`.
ItemErrorText(error) == IF error \in {UNDEF, NULL, ""} THEN "Unknown error" ELSE error

\* Whether the conflict branch throws: getTask gave null, or the winner's
\* updated_at is text and has no toISOString.
ConflictThrows(localTask, serverTask) ==
    \/ localTask = NoTask
    \/ /\ resolveConflict(localTask, serverTask) = serverTask
       /\ ~serverTask.isDate

\* One iteration of `for (const processed of resp.processed_items)`.
ApplyResult(processed) ==
    /\ pc = "results"
    /\ nres < Len(Batch)
    /\ LET k == FindOriginal(Batch, processed.client_id)
           original == Batch[k]
           db == DB(tasks, queue)
           fail(message) ==
               LET db1 == handleSyncError(db, original, message)
               IN /\ tasks' = db1.t
                  /\ queue' = db1.q
                  /\ failed' = failed + 1
                  /\ errors' = Append(errors, [task_id |-> original.task_id,
                                               operation |-> original.operation,
                                               error |-> message])
                  /\ nres' = nres + 1
                  /\ UNCHANGED <<synced, pos, pc>>
           ok(db1) ==
               /\ tasks' = db1.t
               /\ queue' = db1.q
               /\ synced' = synced + 1
               /\ nres' = nres + 1
               /\ UNCHANGED <<failed, errors, pos, pc>>
       IN IF k = 0
          THEN /\ nres' = nres + 1
               /\ last' = Call("result", processed.client_id, "skipped")
               /\ UNCHANGED <<tasks, queue, synced, failed, errors, pos, pc>>
          ELSE /\ last' = Call("result", original.task_id, processed.status)
               /\ IF processed.status = "success"
                  THEN ok(updateSyncStatus(db, original.task_id, "synced", processed.server_id))
                  ELSE IF processed.status = "conflict"
                  THEN IF processed.resolved_data # NoData
                       THEN LET localTask == getTask(original.task_id)
                            IN IF ConflictThrows(localTask, processed.resolved_data)
                               THEN /\ CatchBatch(db, TypeError)
                                    /\ UNCHANGED synced
                               ELSE ok(PersistResolved(db,
                                          resolveConflict(localTask, processed.resolved_data),
                                          processed.server_id))
                       ELSE fail("Conflict without resolution data")
                  ELSE fail(ItemErrorText(processed.error))
    /\ UNCHANGED <<now, items, batchSize, faults, ops, resolving>>

\* The response has no further element: the loop moves to the next batch.
EndResponse ==
    /\ pc = "results"
    /\ pos' = pos + batchSize
    /\ nres' = 0
    /\ pc' = "loop"
    /\ last' = Call("response", 0, "end")
    /\ UNCHANGED <<tasks, queue, now, items, synced, failed, errors, batchSize, faults, ops, resolving>>

\* `return { success: failed === 0, synced_items, failed_items, errors }`.
syncReturn ==
    /\ pc = "loop"
    /\ pos >= Len(items)
    /\ pc' = "idle"
    /\ last' = CallRet("sync", 0, "returned", Summary(failed = 0, synced, failed, errors))
    /\ items' = <<>>
    /\ pos' = 0
    /\ nres' = 0
    /\ synced' = 0
    /\ failed' = 0
    /\ errors' = <<>>
    /\ UNCHANGED <<tasks, queue, now, batchSize, faults, ops, resolving>>

\* No direct call of resolveConflict has been made.
NoResolving == [localTask |-> NoTask, serverTask |-> NoData, winner |-> NoTask]

\* A direct call of resolveConflict(localTask, serverTask): it awaits nothing
\* and touches neither table.
Resolve ==
    /\ resolving.winner = NoTask
    /\ resolving' = [resolving EXCEPT
                        !.winner = resolveConflict(resolving.localTask, resolving.serverTask)]
    /\ UNCHANGED <<tasks, queue, now, pc, items, pos, nres, synced, failed, errors,
                   batchSize, faults, ops, last>>

(* --------------------------- specification ---------------------------- *)
\* The state after construction: both tables empty, no sync run in progress.
\* The clock reads t0 and SYNC_BATCH_SIZE is one of sizes.
InitEnv(t0, sizes) ==
    /\ tasks = <<>>
    /\ queue = <<>>
    /\ now = t0
    /\ pc = "idle"
    /\ items = <<>>
    /\ pos = 0
    /\ nres = 0
    /\ synced = 0
    /\ failed = 0
    /\ errors = <<>>
    /\ batchSize \in sizes
    /\ faults = 0
    /\ ops = 0
    /\ resolving = NoResolving
    /\ last = [op |-> "init", id |-> 0, result |-> "", prior |-> "none", nq |-> 0,
               summary |-> NoSummary]

\* The handlers and the steps of a sync run, in an environment that rejects
\* db.run calls as faultKinds allows, whose remote answers with elements of
\* results, that calls the task store during a sync run only if concurrent,
\* and that makes at most budget mutations reach their writes.
NextEnv(faultKinds, results, concurrent, budget) ==
    \/ /\ concurrent \/ pc = "idle"
       /\ ops < budget \/ ops' = ops
       /\ \E taskData \in CreateInputs, fault \in faultKinds : createTask(taskData, fault)
    \/ /\ concurrent \/ pc = "idle"
       /\ ops < budget \/ ops' = ops
       /\ \E id \in TaskIds, updates \in UpdateInputs, fault \in faultKinds :
             updateTask(id, updates, fault)
    \/ /\ concurrent \/ pc = "idle"
       /\ ops < budget \/ ops' = ops
       /\ \E id \in TaskIds, fault \in faultKinds : deleteTask(id, fault)
    \/ \E online \in BOOLEAN : SyncRoute(online)
    \/ \E accepted \in BOOLEAN : Transmit(accepted)
    \/ \E processed \in results : ApplyResult(processed)
    \/ EndResponse
    \/ syncReturn

\* Results that report success and carry a server_id.
SuccessResults == {r \in Results : r.status = "success" /\ r.server_id = "s1"}

\* The values of SYNC_BATCH_SIZE the model runs with.
BatchSizes == 1..MaxBatchSize

\* Handlers run one at a time, every db.run call succeeds, and the remote
\* answers with any result.
Next == NextEnv({"none"}, Results, FALSE, MaxOps)
Spec == InitEnv(0, BatchSizes) /\ [][Next]_vars

\* Handlers run one at a time, a db.run call of a mutation may reject, and the
\* remote either rejects a batch or reports success.
FaultNext == NextEnv(Faults, SuccessResults, FALSE, MaxOps + 1)
FaultSpec == InitEnv(0, {MaxBatchSize}) /\ [][FaultNext]_vars

\* Handlers run one at a time, every db.run call succeeds, the remote either
\* rejects a batch or reports success, and one more mutation fits than in Spec.
StoreNext == NextEnv({"none"}, SuccessResults, FALSE, MaxOps + 1)
StoreSpec == InitEnv(0, {MaxBatchSize}) /\ [][StoreNext]_vars

\* The task store is called while a sync run is in progress (the run awaits
\* between its steps), every db.run call succeeds, and the remote either
\* rejects a batch or reports success.
ConcNext == NextEnv({"none"}, SuccessResults, TRUE, MaxOps)
ConcSpec == InitEnv(0, {MaxBatchSize}) /\ [][ConcNext]_vars

\* The store after n mutations made at time 0 with no sync in between: the
\* first MaxTasks of them create the tasks, the later ones update them in turn.
RECURSIVE Mutated(_)
Mutated(n) ==
    IF n = 0 THEN DB(<<>>, <<>>)
    ELSE LET db == Mutated(n - 1)
             id == ((n - 1) % MaxTasks) + 1
             taskData == [title |-> "a", description |-> "d", completed |-> UNDEF]
             updates == [title |-> "b", description |-> UNDEF, completed |-> "true"]
         IN IF n <= MaxTasks
            THEN DB(db.t @@ (id :> NewRow(taskData, 0)),
                    InsertQueue(db.q, n, id, "create",
                                QueueData(id, taskData.title, taskData.description,
                                          "false", 0)))
            ELSE LET row == UpdatedRow(db.t[id], updates, 0)
                 IN DB([db.t EXCEPT ![id] = row],
                       InsertQueue(db.q, n, id, "update",
                                   QueueData(id, row.title, Coalesce(row.description, UNDEF),
                                             FromBit(row.completed), 0)))

\* The store after k further sync runs in each of which every batch was rejected.
RECURSIVE Rejected(_, _)
Rejected(db, k) ==
    IF k = 0 THEN db ELSE Rejected(FailAll(db, db.q, NetworkError), k - 1)

\* The state before a sync run on a store that went through n mutations and
\* then k all-rejected runs, for some n of sizes and k of runs.
DrainInit(sizes, runs, batchSizes) ==
    /\ \E n \in sizes, k \in runs :
          LET db == Rejected(Mutated(n), k)
          IN /\ tasks = db.t
             /\ queue = db.q
    /\ now = 0
    /\ pc = "idle"
    /\ items = <<>>
    /\ pos = 0
    /\ nres = 0
    /\ synced = 0
    /\ failed = 0
    /\ errors = <<>>
    /\ batchSize \in batchSizes
    /\ faults = 0
    /\ ops = 0
    /\ resolving = NoResolving
    /\ last = [op |-> "init", id |-> 0, result |-> "", prior |-> "none", nq |-> 0,
               summary |-> NoSummary]

\* The remote answers item by item: the next element of processed_items is the
\* result of the next item of the batch, with one of the given statuses.
Answer(statuses) ==
    /\ pc = "results"
    /\ nres < Len(Batch)
    /\ \E processed \in Results :
          /\ processed.status \in statuses
          /\ processed.client_id = Batch[nres + 1].task_id
          /\ processed.server_id \in {UNDEF, "s1"}
          /\ processed.resolved_data = NoData
          /\ ApplyResult(processed)

\* The response ends once it holds one result per item.
FullResponse ==
    /\ nres = Len(Batch)
    /\ EndResponse

\* A sync run on a remote that is reachable, accepts or rejects each batch and
\* answers an accepted batch item by item with success or error; no local
\* mutation is made.
DrainNext ==
    \/ SyncRoute(TRUE)
    \/ \E accepted \in BOOLEAN : Transmit(accepted)
    \/ Answer({"success", "error"})
    \/ FullResponse
    \/ syncReturn
DrainSpec == DrainInit(0..MaxDrain, {0}, 1..(MaxBatchSize + 1)) /\ [][DrainNext]_vars

\* As DrainNext, with a remote that may also answer an item with a conflict
\* that carries no resolution data.
BareNext ==
    \/ SyncRoute(TRUE)
    \/ \E accepted \in BOOLEAN : Transmit(accepted)
    \/ Answer({"success", "error", "conflict"})
    \/ FullResponse
    \/ syncReturn
BareSpec == DrainInit(0..(MaxDrain - 1), {0}, 1..(MaxBatchSize + 1)) /\ [][BareNext]_vars

\* No local mutation is made, the remote is reachable, accepts every batch and
\* answers every item with one success result; a handler that can take a step
\* eventually takes it.  The store has been through some mutations and then no
\* failed run, or enough failed runs to leave every task in error.
LiveNext ==
    \/ SyncRoute(TRUE)
    \/ Transmit(TRUE)
    \/ Answer({"success"})
    \/ FullResponse
    \/ syncReturn
LiveSpec ==
    /\ DrainInit(1..MaxDrain, {0, MaxRetries}, 1..MaxBatchSize)
    /\ [][LiveNext]_vars
    /\ WF_vars(LiveNext)

\* The local rows and remote copies resolveConflict is applied to.
LocalRows ==
    [title : {"a", "b"}, description : {NULL}, completed : {0, 1}, updated_at : Times,
     is_deleted : {0}, sync_status : {"pending", "error"}, server_id : {NULL},
     last_synced_at : {NoTime}]

\* A task with one queued update, and a call of resolveConflict about to be
\* made on it and a remote copy.
ResolveInit ==
    /\ tasks \in {1 :> row : row \in LocalRows}
    /\ queue = <<QueueRow(1, 1, "update",
                          QueueData(1, tasks[1].title, UNDEF, FromBit(tasks[1].completed),
                                    tasks[1].updated_at))>>
    /\ now = MaxTime
    /\ pc = "idle"
    /\ items = <<>>
    /\ pos = 0
    /\ nres = 0
    /\ synced = 0
    /\ failed = 0
    /\ errors = <<>>
    /\ batchSize = MaxBatchSize
    /\ faults = 0
    /\ ops = 0
    /\ resolving \in [localTask : {getTask(1)}, serverTask : ResolvedData, winner : {NoTask}]
    /\ last = [op |-> "init", id |-> 0, result |-> "", prior |-> "none", nq |-> 0,
               summary |-> NoSummary]

\* resolveConflict alone, on every pair of a local task and a remote copy.
ResolveNext == Resolve
ResolveSpec == ResolveInit /\ [][ResolveNext]_vars

(* ------------------------------ claims -------------------------------- *)
\* The ids of the rows of a queue.
QueueIds(q) == {q[i].id : i \in DOMAIN q}

\* A title that is non-empty text.
ValidTitle(v) == v \notin {UNDEF, NULL, NUM, ""}

\* C1: a createTask call with a valid title whose writes succeed leaves a new
\* task with sync_status pending and exactly one queue row referencing it,
\* with operation create, and touches no other row; a call with an absent,
\* empty or non-text title fails and changes neither table.
C1_CreateContract ==
    [][\A taskData \in CreateInputs, fault \in Faults :
          createTask(taskData, fault) =>
             IF ValidTitle(taskData.title)
             THEN fault = "none" =>
                    LET id == last'.id
                    IN /\ id \notin DOMAIN tasks
                       /\ DOMAIN tasks' = DOMAIN tasks \cup {id}
                       /\ \A other \in DOMAIN tasks : tasks'[other] = tasks[other]
                       /\ tasks'[id].sync_status = "pending"
                       /\ tasks'[id].title = taskData.title
                       /\ CountOf(queue', id) = 1
                       /\ EntriesOf(queue', id)[1].operation = "create"
                       /\ SubSeq(queue', 1, Len(queue)) = queue
                       /\ Len(queue') = Len(queue) + 1
             ELSE /\ last'.result = "Title is required"
                  /\ tasks' = tasks
                  /\ queue' = queue]_vars

\* C1 witness: a second task was just created while the first task's row is
\* still queued.
C1_Witness ==
    /\ last.op = "create"
    /\ last.result = "task"
    /\ last.id = 2
    /\ tasks[2].sync_status = "pending"
    /\ Len(queue) = 2
    /\ CountOf(queue, 2) = 1

\* C2: updateTask or deleteTask on an existing (not soft-deleted) task, with
\* its writes succeeding, sets sync_status to pending whatever it was, appends
\* exactly one queue row for the task (operation update, respectively delete)
\* and leaves every earlier queue row, of this and of every other task, as it
\* was.
C2_MutationAppends ==
    [][\A id \in TaskIds :
          (HasRow(id) /\ tasks[id].is_deleted = 0) =>
             /\ \A updates \in UpdateInputs :
                   updateTask(id, updates, "none") =>
                      /\ tasks'[id].sync_status = "pending"
                      /\ Len(queue') = Len(queue) + 1
                      /\ SubSeq(queue', 1, Len(queue)) = queue
                      /\ queue'[Len(queue')].task_id = id
                      /\ queue'[Len(queue')].operation = "update"
                      /\ queue'[Len(queue')].id \notin QueueIds(queue)
             /\ deleteTask(id, "none") =>
                      /\ tasks'[id].sync_status = "pending"
                      /\ Len(queue') = Len(queue) + 1
                      /\ SubSeq(queue', 1, Len(queue)) = queue
                      /\ queue'[Len(queue')].task_id = id
                      /\ queue'[Len(queue')].operation = "delete"
                      /\ queue'[Len(queue')].id \notin QueueIds(queue)]_vars

\* C2 witness: an update of a task that was in error, whose earlier queue row
\* (with its retry bookkeeping) is still there beside the new one.
C2_Witness ==
    /\ last.op = "update"
    /\ last.result = "task"
    /\ last.prior = "error"
    /\ last.nq = 1
    /\ CountOf(queue, last.id) = 2
    /\ EntriesOf(queue, last.id)[1].retry_count >= MaxRetries
    /\ tasks[last.id].sync_status = "pending"

\* C3: a mutation whose queue write fails leaves the task rows as they were.
C3_AtomicWithEnqueue ==
    [][/\ \A taskData \in CreateInputs :
             createTask(taskData, "queue") => tasks' = tasks
       /\ \A id \in TaskIds, updates \in UpdateInputs :
             updateTask(id, updates, "queue") => tasks' = tasks
       /\ \A id \in TaskIds :
             deleteTask(id, "queue") => tasks' = tasks]_vars

\* C4: updateTask and deleteTask on an absent or soft-deleted task report
\* not-found (null, respectively false) and change neither table.
C4_NotFoundNoMutation ==
    [][\A id \in TaskIds :
          (~HasRow(id) \/ tasks[id].is_deleted = 1) =>
             /\ \A updates \in UpdateInputs, fault \in Faults :
                   updateTask(id, updates, fault) =>
                      /\ last'.result = "null"
                      /\ tasks' = tasks
                      /\ queue' = queue
             /\ \A fault \in Faults :
                   deleteTask(id, fault) =>
                      /\ last'.result = "false"
                      /\ tasks' = tasks
                      /\ queue' = queue]_vars

\* C5: a POST /sync whose connectivity probe answers "unreachable" reports
\* Server unreachable, starts no sync run (so transmits no batch) and writes
\* nothing: every task row and every queue row, retry_count and error_message
\* included, is as before.
C5_OfflineNoWrites ==
    [][SyncRoute(FALSE) =>
          /\ last'.result = "Server unreachable"
          /\ pc' = "idle"
          /\ items' = <<>>
          /\ tasks' = tasks
          /\ queue' = queue]_vars

\* C5 witness: the probe failed while the queue holds a row that already
\* carries retry bookkeeping from an earlier run.
C5_Witness ==
    /\ last.op = "sync"
    /\ last.result = "Server unreachable"
    /\ pc = "idle"
    /\ \E i \in DOMAIN queue :
          /\ queue[i].retry_count > 0
          /\ queue[i].error_message # NULL

\* C6: applying a success result that matches a queued entry makes the task
\* synced, sets its last_synced_at, attaches the result's server_id when one
\* is given (and keeps the stored one otherwise), removes every queue row of
\* that task, and leaves the rows of other tasks, in both tables, as they were.
C6_SuccessClearsTask ==
    [][\A processed \in Results :
          ( /\ processed.status = "success"
            /\ pc = "results"
            /\ FindOriginal(Batch, processed.client_id) # 0
            /\ ApplyResult(processed) ) =>
             LET id == processed.client_id
             IN /\ HasRow(id)
                /\ tasks'[id].sync_status = "synced"
                /\ tasks'[id].last_synced_at # NoTime
                /\ tasks'[id].server_id =
                      IF processed.server_id # UNDEF THEN processed.server_id
                      ELSE tasks[id].server_id
                /\ CountOf(queue', id) = 0
                /\ queue' = SelectSeq(queue, LAMBDA e : e.task_id # id)
                /\ \A other \in DOMAIN tasks \ {id} : tasks'[other] = tasks[other]]_vars

\* C6 witness: a success was applied for a task that had two queue rows, both
\* are gone, and the result's server_id is stored.
C6_Witness ==
    /\ last.op = "result"
    /\ last.result = "success"
    /\ last.nq = 2
    /\ last.prior = "pending"
    /\ CountOf(queue, last.id) = 0
    /\ tasks[last.id].sync_status = "synced"
    /\ tasks[last.id].server_id = "s1"
    /\ tasks[last.id].last_synced_at # NoTime

\* C7: between operations (no sync run in progress), a task whose sync_status
\* is synced has no queue row referencing it.
C7_SyncedHasNoEntries ==
    pc = "idle" =>
       \A id \in DOMAIN tasks :
          tasks[id].sync_status = "synced" => CountOf(queue, id) = 0

\* C7 witness: a sync run that synced one task and failed another has
\* returned; the failed task's row is still queued.
C7_Witness ==
    /\ pc = "idle"
    /\ last.op = "sync"
    /\ last.result = "returned"
    /\ last.summary.synced_items > 0
    /\ last.summary.failed_items > 0
    /\ \E id \in DOMAIN tasks : tasks[id].sync_status = "synced"
    /\ queue # <<>>

\* The step books the entry at position i of the current batch as failed: the
\* post of the batch was rejected, or applying a result threw (both run the
\* catch block over the whole batch), or the result matched to the entry is an
\* error or a conflict without resolution data.
FailsInStep(i) ==
    \/ Transmit(FALSE)
    \/ /\ pc = "results"
       /\ \E processed \in Results :
             /\ ApplyResult(processed)
             /\ \/ pc' = "loop"
                \/ /\ FindOriginal(Batch, processed.client_id) = i
                   /\ \/ processed.status = "error"
                      \/ processed.status = "conflict" /\ processed.resolved_data = NoData

\* C8: when an entry that has failed in two earlier runs fails again, it is in
\* the queue with retry_count 3 right after that failure, its task is in
\* error, and every queue row of that task is still present; a failure that
\* leaves the entry's count below 3 does not put the task in error (the task
\* enters error in such a step only through another entry of it that reaches
\* the threshold in the same step).
C8_ThirdFailure ==
    [][\A i \in DOMAIN Batch :
          FailsInStep(i) =>
             LET e == Batch[i]
                 T == e.task_id
             IN IF e.retry_count = MaxRetries - 1
                THEN /\ \E j \in DOMAIN queue' :
                           /\ queue'[j].id = e.id
                           /\ queue'[j].retry_count = MaxRetries
                     /\ tasks'[T].sync_status = "error"
                     /\ \A j \in DOMAIN queue :
                           queue[j].task_id = T => queue[j].id \in QueueIds(queue')
                ELSE (/\ e.retry_count < MaxRetries - 1
                      /\ tasks[T].sync_status # "error"
                      /\ tasks'[T].sync_status = "error") =>
                        \E j \in DOMAIN Batch :
                           /\ Batch[j].task_id = T
                           /\ Batch[j].retry_count >= MaxRetries - 1]_vars

\* C9: no queue row ever has a retry_count above 3, and no batch that was
\* handed to the remote holds a row that has already failed 3 times.
C9_RetryCeiling ==
    /\ \A i \in DOMAIN queue : queue[i].retry_count <= MaxRetries
    /\ pc = "results" => \A i \in DOMAIN Batch : Batch[i].retry_count < MaxRetries

\* C10: resolveConflict returns the local task when local.updated_at >=
\* remote.updated_at (ties included) and the remote task otherwise, always one
\* of its two arguments as a whole record, and it changes no task row and no
\* queue row.
C10_ResolveContract ==
    [][Resolve =>
          LET localTask == resolving.localTask
              serverTask == resolving.serverTask
              winner == resolving'.winner
          IN /\ localTask.updated_at >= serverTask.updated_at => winner = localTask
             /\ localTask.updated_at < serverTask.updated_at => winner = serverTask
             /\ winner = localTask \/ winner = serverTask
             /\ tasks' = tasks
             /\ queue' = queue]_vars

\* C10 witness: a tie between a local task and a remote copy that differ in
\* their fields was resolved, and the local task came back.
C10_Witness ==
    /\ resolving.winner # NoTask
    /\ resolving.localTask.updated_at = resolving.serverTask.updated_at
    /\ resolving.localTask.title # resolving.serverTask.title
    /\ resolving.winner = resolving.localTask
    /\ tasks[1].title = resolving.localTask.title
    /\ Len(queue) = 1

\* C11: applying a conflict result that carries resolution data and matches a
\* queued entry leaves the entry's task, soft-deleted or not and whatever id
\* the resolution data carries, with the title, description and completed of
\* the winner (the local task when local.updated_at >= remote.updated_at, the
\* remote copy otherwise), marked synced and without queue rows, and counts
\* the item as synced.
C11_ConflictPersistsWinner ==
    [][\A processed \in Results :
          ( /\ pc = "results"
            /\ processed.status = "conflict"
            /\ processed.resolved_data # NoData
            /\ FindOriginal(Batch, processed.client_id) # 0
            /\ ApplyResult(processed) ) =>
             LET T == processed.client_id
                 localTask == mapRowToTask(T, tasks[T])
                 serverTask == processed.resolved_data
                 localWins == localTask.updated_at >= serverTask.updated_at
             IN /\ tasks'[T].title =
                      IF localWins THEN localTask.title ELSE serverTask.title
                /\ tasks'[T].description =
                      Coalesce(IF localWins THEN localTask.description
                               ELSE serverTask.description, NULL)
                /\ tasks'[T].completed =
                      ToBit(IF localWins THEN localTask.completed ELSE serverTask.completed)
                /\ tasks'[T].sync_status = "synced"
                /\ CountOf(queue', T) = 0
                /\ synced' = synced + 1]_vars

\* ceil(n / b).
CeilDiv(n, b) == (n + b - 1) \div b

\* C12: a sync run over n drained entries with batch size b posts batches one
\* at a time; the batch posted at offset i is the slice of the drained order
\* from i + 1 to min(i + b, n), i is a multiple of b below n, every batch but
\* the last holds exactly b entries; the offset moves by b, and only when a
\* batch is done (rejected, or its response consumed), whatever its outcome;
\* and the run returns after exactly ceil(n / b) batches.
C12_Batching ==
    [][/\ \A accepted \in BOOLEAN :
             Transmit(accepted) =>
                /\ pos % batchSize = 0
                /\ pos < Len(items)
                /\ Len(Batch) >= 1
                /\ Len(Batch) <= batchSize
                /\ pos + batchSize < Len(items) => Len(Batch) = batchSize
                /\ \A j \in 1..Len(Batch) : Batch[j] = items[pos + j]
                /\ pos + Len(Batch) = Len(items) \/ Len(Batch) = batchSize
                /\ IF accepted THEN pc' = "results" /\ pos' = pos
                   ELSE pc' = "loop" /\ pos' = pos + batchSize
       /\ (pc = "results" /\ pc' = "results") => pos' = pos
       /\ (pc = "results" /\ pc' = "loop") => pos' = pos + batchSize
       /\ syncReturn => pos = batchSize * CeilDiv(Len(items), batchSize)]_vars

\* C12 witness: five drained entries, batch size 2, and the third batch, of
\* one entry, has been posted.
C12_Witness ==
    /\ pc = "results"
    /\ last.op = "transmit"
    /\ Len(items) = 5
    /\ batchSize = 2
    /\ pos = 4
    /\ Len(Batch) = 1
    /\ failed > 0
    /\ synced > 0

\* A sync run has just returned.
Returned == pc = "idle" /\ last.op = "sync" /\ last.result = "returned"

C14_ServerIdImmutable ==
    [][\A id \in DOMAIN tasks :
          tasks[id].server_id # NULL => tasks'[id].server_id = tasks[id].server_id]_vars

\* The step appends to errors, in batch order, one record per position in F
\* of the current batch, carrying that entry's task_id and operation, and
\* raises the failed count by the number of those positions.
Booked(F) ==
    /\ Len(errors') = Len(errors) + Cardinality(F)
    /\ SubSeq(errors', 1, Len(errors)) = errors
    /\ failed' = failed + Cardinality(F)
    /\ Len(errors') = failed'
    /\ \A i \in F :
          LET j == Len(errors) + Cardinality({m \in F : m <= i})
          IN /\ errors'[j].task_id = Batch[i].task_id
             /\ errors'[j].operation = Batch[i].operation

\* C15: the summary a sync run returns has success true exactly when the
\* failed count is 0 and as many error records as counted failures, in the
\* order they were booked; during the run a step that ends a batch with new
\* failures (a rejected post, a result whose application throws) books every
\* entry of the batch, in order; another step that raises the failed count
\* books exactly the entry its result is matched to; and every other step
\* leaves the count and the records alone.
C15_SummaryConsistent ==
    [][/\ syncReturn =>
             /\ last'.summary.success = (last'.summary.failed_items = 0)
             /\ Len(last'.summary.errors) = last'.summary.failed_items
             /\ last'.summary.errors = errors
             /\ last'.summary.failed_items = failed
             /\ last'.summary.synced_items = synced
       /\ (pc # "idle" /\ pc' # "idle") =>
             IF failed' = failed /\ errors' = errors THEN TRUE
             ELSE IF last'.op = "transmit" \/ (pc = "results" /\ pc' = "loop")
             THEN Booked(DOMAIN Batch)
             ELSE /\ last'.op = "result"
                  /\ FindOriginal(Batch, last'.id) # 0
                  /\ Booked({FindOriginal(Batch, last'.id)})]_vars

\* C15 witness: a run has returned a summary with one synced item and two
\* failures, of different tasks, in the order of the batch.
C15_Witness ==
    /\ Returned
    /\ ~last.summary.success
    /\ last.summary.synced_items = 1
    /\ last.summary.failed_items = 2
    /\ Len(last.summary.errors) = 2
    /\ last.summary.errors[1].task_id = 1
    /\ last.summary.errors[2].task_id = 2

\* C16: when a sync run without concurrent mutations has returned, the remote
\* having answered every item of an accepted batch once and in order, no task
\* for which the run booked a failure (an error result or a rejected batch) is
\* synced: a synced task has no queue row, so its failed operation would be
\* discarded.
C16_SyncedOnlyIfAllAccepted ==
    Returned =>
       \A i \in DOMAIN last.summary.errors :
          tasks[last.summary.errors[i].task_id].sync_status # "synced"

\* The ids of the queue entries the run in progress read at its start.
ItemIds == {items[i].id : i \in DOMAIN items}

\* C17: when a sync run applies a result for task T, every queue entry of T
\* that was added after the run read the queue is still in the queue after
\* the step, and T is pending.
C17_InterleavedMutationKept ==
    [][(pc = "results" /\ last'.op = "result") =>
          \A i \in DOMAIN queue :
             (queue[i].task_id = last'.id /\ queue[i].id \notin ItemIds) =>
                /\ \E j \in DOMAIN queue' : queue'[j] = queue[i]
                /\ tasks'[queue[i].task_id].sync_status = "pending"]_vars

\* C18: when the remote answers the items of an accepted batch one by one and
\* in order, an error result returned for an entry that is in the queue adds
\* exactly 1 to the retry_count of that entry and sets its error_message, and
\* leaves every other entry as it was.
C18_FailureBookedOnEntry ==
    [][(/\ pc = "results"
        /\ nres < Len(Batch)
        /\ last'.op = "result"
        /\ last'.result = "error"
        /\ Batch[nres + 1].id \in QueueIds(queue)) =>
          /\ Len(errors') = Len(errors) + 1
          /\ DOMAIN queue' = DOMAIN queue
          /\ \A i \in DOMAIN queue :
                queue'[i] = IF queue[i].id = Batch[nres + 1].id
                            THEN [queue[i] EXCEPT
                                     !.retry_count = @ + 1,
                                     !.error_message = errors'[Len(errors')].error]
                            ELSE queue[i]]_vars

\* C19: in an accepted batch, when the result after a success for task T is a
\* result for another task, T stays synced, the synced count does not drop and
\* no failure record is added for T, whatever that result is.
C19_OutcomesIndependent ==
    [][(/\ pc = "results"
        /\ last.op = "result"
        /\ last.result = "success"
        /\ last'.op = "result"
        /\ last'.id # last.id) =>
          /\ tasks'[last.id].sync_status = "synced"
          /\ synced' >= synced
          /\ \A j \in (Len(errors) + 1)..Len(errors') :
                errors'[j].task_id # last.id]_vars

\* C20: when the post of a batch is rejected, every entry of the batch is in
\* the queue with its retry_count one higher and the batch-level message as
\* its error_message, every other queue entry is as it was, no entry is
\* removed, the failed count grows by the size of the batch, no task of the
\* batch becomes synced, and the loop moves on to the next batch.
C20_BatchFailure ==
    [][(pc = "loop" /\ last'.op = "transmit" /\ last'.result = "rejected") =>
          /\ DOMAIN queue' = DOMAIN queue
          /\ Len(errors') = Len(errors) + Len(Batch)
          /\ \A k \in DOMAIN Batch :
                /\ \E i \in DOMAIN queue :
                      /\ queue[i].id = Batch[k].id
                      /\ queue'[i] = [queue[i] EXCEPT
                                         !.retry_count = @ + 1,
                                         !.error_message = errors'[Len(errors')].error]
                /\ tasks'[Batch[k].task_id].sync_status = "synced" =>
                      tasks[Batch[k].task_id].sync_status = "synced"
          /\ \A i \in DOMAIN queue :
                queue[i].id \notin {Batch[k].id : k \in DOMAIN Batch} =>
                   queue'[i] = queue[i]
          /\ failed' = failed + Len(Batch)
          /\ pc' = "loop"
          /\ pos' = pos + batchSize]_vars

\* The entry of the batch that the result just applied was matched to.
Matched == Batch[FindOriginal(Batch, last'.id)]

\* C21: when a result with status conflict and no resolution data is applied,
\* the task keeps its content fields, server_id and last_synced_at and does
\* not become synced, the queue keeps its entries, the retry_count of the
\* matched entry grows by 1, and one failure is counted with an error record
\* for the matched entry.
C21_BareConflictFails ==
    [][(/\ pc = "results"
        /\ nres < Len(Batch)
        /\ last'.op = "result"
        /\ last'.result = "conflict") =>
          /\ tasks' = [tasks EXCEPT
                          ![Matched.task_id].sync_status =
                              tasks'[Matched.task_id].sync_status]
          /\ tasks'[Matched.task_id].sync_status = "synced" =>
                tasks[Matched.task_id].sync_status = "synced"
          /\ DOMAIN queue' = DOMAIN queue
          /\ QueueIds(queue') = QueueIds(queue)
          /\ \E i \in DOMAIN queue :
                /\ queue[i].id = Matched.id
                /\ queue'[i].retry_count = queue[i].retry_count + 1
          /\ synced' = synced
          /\ failed' = failed + 1
          /\ errors' = Append(errors,
                              [task_id |-> Matched.task_id,
                               operation |-> Matched.operation,
                               error |-> "Conflict without resolution data"])]_vars

\* C22: whenever no handler is running, every task whose sync_status is
\* pending or error has at least one queue entry, and every queue entry is
\* the entry of a task in the tasks table.
C22_UnsyncedHasEntry ==
    pc = "idle" =>
       /\ \A id \in DOMAIN tasks :
             tasks[id].sync_status \in {"pending", "error"} =>
                \E i \in DOMAIN queue : queue[i].task_id = id
       /\ \A i \in DOMAIN queue : queue[i].task_id \in DOMAIN tasks
====
